---- MODULE Spec2Model ----
(***************************************************************************)
(* Model of src/app.py: the /api/analyze-signals request (signal fetch,    *)
(* concurrent candle fetch over one aiohttp session, sequential trade      *)
(* evaluation, aggregation) and the analyze_trade candle scan.             *)
(*                                                                         *)
(* Conventions                                                             *)
(*   - Python None is the empty tuple <<>>; a present value x is <<x>>.    *)
(*   - Prices are integers in hundredths (103.00 is 10300), so round(x, 2) *)
(*     is rounding to an integer.                                          *)
(*   - A time of day (datetime.time) is its number of seconds since        *)
(*     midnight; strftime("%H:%M:%S") is the triple <<H, M, S>>.           *)
(*   - TLC integers are 32 bits wide, so epoch values are scaled: candle   *)
(*     timestamps lie on 1970-01-02 and the millisecond threshold of       *)
(*     normalize_ts is 10^6 instead of 10^12 (see MS_THRESHOLD).           *)
(***************************************************************************)
EXTENDS Integers, Sequences, FiniteSets, TLC

\* ------------------------------------------------------------------ bounds

\* Longest candle sequence given to analyze_trade in TradeSpec.
MaxCandles == 2

\* Longest signal list the signal provider returns in Spec.
MaxSignals == 3

\* ------------------------------------------------------------------ config

\* src/app.py:27  100 in the source; scaled down so that the requested symbols
\* can outnumber the connector's limit.
MAX_WORKERS == 2

\* src/app.py:33  IST = timezone(timedelta(hours=5, minutes=30)), in seconds.
IST_OFFSET == 19800

\* src/app.py:86  1_000_000_000_000 in the source, scaled by 10^-6.
MS_THRESHOLD == 1000000

\* datetime.time(h, m) as seconds since midnight.
dtime(h, m) == h * 3600 + m * 60

MARKET_OPEN == dtime(9, 15)

MARKET_CLOSE == dtime(15, 30)

DEFAULT_ENTRY_AFTER == dtime(9, 25)

None == <<>>

Some(x) == <<x>>

\* ------------------------------------------------------------ time helpers

normalize_ts(ts) == IF ts > MS_THRESHOLD THEN ts \div 1000 ELSE ts

\* datetime.fromtimestamp(ts, UTC).astimezone(IST).time()
candle_time(ts) == (ts + IST_OFFSET) % 86400

\* time.strftime("%H:%M:%S")
strftime(tod) == <<tod \div 3600, (tod % 3600) \div 60, tod % 60>>

\* ----------------------------------------------------------- analyze_trade

\* Candle tuple (ts, o, h, l, c, v), 1-based.
TS(candle) == candle[1]

HIGH(candle) == candle[3]

LOW(candle) == candle[4]

CLOSE(candle) == candle[5]

\* Locals of analyze_trade before the loop (lines 136-138).
ScanStart ==
  [entered |-> FALSE, entry_time |-> None, last_close |-> None,
   broke |-> FALSE, ret |-> None]

\* Line 146, mutated: the cutoff candle itself stops the scan.
TruncatesAtOrAfter(end_before_time, tod) ==
  /\ end_before_time # None
  /\ tod >= end_before_time[1]

\* Line 146: if end_before_time and candle_dt.time() > end_before_time
Truncates(end_before_time, tod) ==
  /\ end_before_time # None
  /\ tod > end_before_time[1]

\* Line 149, mutated: the entry-after time is not consulted.
EntersIgnoringTime(entered, tod, h, entry_after_time, entry) ==
  /\ ~entered
  /\ h >= entry

\* Line 149: if not entered and candle_dt.time() >= entry_after_time and h >= entry
Enters(entered, tod, h, entry_after_time, entry) ==
  /\ ~entered
  /\ tod >= entry_after_time
  /\ h >= entry

\* Lines 155-162, mutated: the profit is measured from the open, not the entry.
ExitedTargetFromOpen(entry_time, t, signal) ==
  [status |-> "EXITED_TARGET", entry_time |-> entry_time, exit_time |-> Some(t),
   exit_ltp |-> Some(signal.target),
   pnl |-> Some((signal.target - signal.open) * signal.qty),
   market_closed |-> FALSE]

ExitedTarget(entry_time, t, signal) ==
  [status |-> "EXITED_TARGET", entry_time |-> entry_time, exit_time |-> Some(t),
   exit_ltp |-> Some(signal.target),
   pnl |-> Some((signal.target - signal.entry) * signal.qty),
   market_closed |-> FALSE]

\* Lines 165-172, mutated: the stoploss exit carries no pnl.
ExitedSLNoPnl(entry_time, t, signal) ==
  [status |-> "EXITED_SL", entry_time |-> entry_time, exit_time |-> Some(t),
   exit_ltp |-> Some(signal.stoploss),
   pnl |-> None,
   market_closed |-> FALSE]

ExitedSL(entry_time, t, signal) ==
  [status |-> "EXITED_SL", entry_time |-> entry_time, exit_time |-> Some(t),
   exit_ltp |-> Some(signal.stoploss),
   pnl |-> Some((signal.stoploss - signal.entry) * signal.qty),
   market_closed |-> FALSE]

ExitedMarketClose(entry_time, last_close, signal) ==
  [status |-> "EXITED_MARKET_CLOSE", entry_time |-> entry_time,
   exit_time |-> Some(strftime(MARKET_CLOSE)),
   exit_ltp |-> last_close,
   pnl |-> Some((last_close[1] - signal.entry) * signal.qty),
   market_closed |-> TRUE]

NotEntered ==
  [status |-> "NOT_ENTERED", entry_time |-> None, exit_time |-> None,
   exit_ltp |-> None, pnl |-> None, market_closed |-> FALSE]

\* Lines 153-172, mutated: the stoploss test comes first.
ExitCheckStoplossFirst(entry_time, t, h, l, signal) ==
  IF l <= signal.stoploss THEN Some(ExitedSL(entry_time, t, signal))
  ELSE IF h >= signal.target THEN Some(ExitedTarget(entry_time, t, signal))
  ELSE None

\* Lines 154-172: the value returned from inside the loop for an entered
\* position, or None when the loop goes on.
ExitCheck(entry_time, t, h, l, signal) ==
  IF h >= signal.target THEN Some(ExitedTarget(entry_time, t, signal))
  ELSE IF l <= signal.stoploss THEN Some(ExitedSL(entry_time, t, signal))
  ELSE None

\* Lines 140-172, mutated: the close is recorded after the cutoff test, so the
\* candle that stops the scan leaves last_close alone.
ScanCandleCloseAfterCutoff(st, candle, signal, entry_after_time, end_before_time) ==
  LET ts  == normalize_ts(TS(candle))
      tod == candle_time(ts)
      t   == strftime(tod)
      s1  == [st EXCEPT !.last_close = Some(CLOSE(candle))]
  IN  IF Truncates(end_before_time, tod)
      THEN [st EXCEPT !.broke = TRUE]
      ELSE LET s2 == IF Enters(s1.entered, tod, HIGH(candle),
                               entry_after_time, signal.entry)
                     THEN [s1 EXCEPT !.entered = TRUE, !.entry_time = Some(t)]
                     ELSE s1
           IN  IF s2.entered
               THEN [s2 EXCEPT !.ret = ExitCheck(s2.entry_time, t, HIGH(candle),
                                                 LOW(candle), signal)]
               ELSE s2

\* Lines 140-172, mutated: the exit test is skipped on the candle of the entry.
ScanCandleExitNextCandle(st, candle, signal, entry_after_time, end_before_time) ==
  LET ts  == normalize_ts(TS(candle))
      tod == candle_time(ts)
      t   == strftime(tod)
      s1  == [st EXCEPT !.last_close = Some(CLOSE(candle))]
  IN  IF Truncates(end_before_time, tod)
      THEN [s1 EXCEPT !.broke = TRUE]
      ELSE LET s2 == IF Enters(s1.entered, tod, HIGH(candle),
                               entry_after_time, signal.entry)
                     THEN [s1 EXCEPT !.entered = TRUE, !.entry_time = Some(t)]
                     ELSE s1
           IN  IF s1.entered
               THEN [s2 EXCEPT !.ret = ExitCheck(s2.entry_time, t, HIGH(candle),
                                                 LOW(candle), signal)]
               ELSE s2

\* Lines 140-172: one iteration of the loop on one candle.
ScanCandle(st, candle, signal, entry_after_time, end_before_time) ==
  LET ts  == normalize_ts(TS(candle))
      tod == candle_time(ts)
      t   == strftime(tod)
      s1  == [st EXCEPT !.last_close = Some(CLOSE(candle))]
  IN  IF Truncates(end_before_time, tod)
      THEN [s1 EXCEPT !.broke = TRUE]
      ELSE LET s2 == IF Enters(s1.entered, tod, HIGH(candle),
                               entry_after_time, signal.entry)
                     THEN [s1 EXCEPT !.entered = TRUE, !.entry_time = Some(t)]
                     ELSE s1
           IN  IF s2.entered
               THEN [s2 EXCEPT !.ret = ExitCheck(s2.entry_time, t, HIGH(candle),
                                                 LOW(candle), signal)]
               ELSE s2

\* Lines 174-191, mutated: a scan the cutoff stopped forgets the entry.
AfterLoopDropsTruncated(st, signal) ==
  IF st.entered /\ st.last_close # None /\ ~st.broke
  THEN ExitedMarketClose(st.entry_time, st.last_close, signal)
  ELSE NotEntered

\* Lines 174-191: the return after the loop.
AfterLoop(st, signal) ==
  IF st.entered /\ st.last_close # None
  THEN ExitedMarketClose(st.entry_time, st.last_close, signal)
  ELSE NotEntered

\* The loop continues with candle i: no return and no break so far.
Scanning(st, i, candles) == st.ret = None /\ ~st.broke /\ i <= Len(candles)

RECURSIVE ScanFrom(_, _, _, _, _, _)
ScanFrom(st, i, candles, signal, entry_after_time, end_before_time) ==
  IF Scanning(st, i, candles)
  THEN ScanFrom(ScanCandle(st, candles[i], signal, entry_after_time, end_before_time),
                i + 1, candles, signal, entry_after_time, end_before_time)
  ELSE st

\* Lines 130-191.
analyze_trade(candles, signal, entry_after_time, end_before_time) ==
  LET st == ScanFrom(ScanStart, 1, candles, signal, entry_after_time, end_before_time)
  IN  IF st.ret # None THEN st.ret[1] ELSE AfterLoop(st, signal)

\* Lines 305-307: entry and target derived from the signal's open.
\* round(x, 2) on hundredths: nearest integer, ties to even.
RoundDiv(n, d) ==
  LET q == n \div d
      r == n % d
  IN  IF 2 * r > d \/ (2 * r = d /\ q % 2 = 1) THEN q + 1 ELSE q

derive(sig, breakout_pct, profit_pct) ==
  LET entry  == RoundDiv(sig.open * (100 + breakout_pct), 100)
      target == RoundDiv(entry * (100 + profit_pct), 100)
  IN  [symbol |-> sig.symbol, open |-> sig.open, stoploss |-> sig.stoploss,
       qty |-> sig.qty, entry |-> entry, target |-> target]

\* ------------------------------------------------------------------ inputs

\* Candle timestamps on 1970-01-02 IST: 09:20 and 09:30 in seconds, 09:35 in
\* milliseconds.
EpochAt(h, m) == 86400 + dtime(h, m) - IST_OFFSET

TS_0920 == EpochAt(9, 20)

TS_0930 == EpochAt(9, 30)

TS_0935_MS == EpochAt(9, 35) * 1000

Candle(ts, h, l, c) == <<ts, 0, h, l, c, 0>>

SymbolList == <<"AAA", "BBB", "CCC">>

Symbols == {SymbolList[i] : i \in 1..Len(SymbolList)}

\* The i-th signal of a list carries its own open price, so that two signals
\* of one symbol differ.
OpenAt(i) == 10000 + 100 * (i - 1)

SignalAt(sym, i) == [symbol |-> sym, open |-> OpenAt(i), stoploss |-> 10000, qty |-> 2]

SignalLists ==
  UNION {{[i \in 1..n |-> SignalAt(syms[i], i)] : syms \in [1..n -> Symbols]}
         : n \in 0..MaxSignals}

\* Candle sequences the market-data provider answers with in Spec.
CandleMenu ==
  {<<Candle(TS_0930, 10700, 9900, 10500)>>,
   <<Candle(TS_0920, 10700, 9900, 10500), Candle(TS_0935_MS, 10450, 10100, 10400)>>}

\* A JSON object is a function on its keys; {} is the empty function.
EmptyObject == <<>>

DictGet(d, key, default) == IF key \in DOMAIN d THEN d[key] ELSE default

DictPut(d, key, value) ==
  [x \in (DOMAIN d) \cup {key} |-> IF x = key THEN value ELSE d[x]]

\* What an upstream does with one request: answer 200 with a JSON body,
\* answer another status, fail in transport, or stay silent until the
\* request's timeout fires.
Failures ==
  {[kind |-> "status", body |-> EmptyObject],
   [kind |-> "error", body |-> EmptyObject],
   [kind |-> "timeout", body |-> EmptyObject]}

CandleResponses ==
  {[kind |-> "ok", body |-> [candles |-> cs]] : cs \in CandleMenu}
    \cup {[kind |-> "ok", body |-> EmptyObject]} \cup Failures

\* A status other than 200 may come with a JSON body of its own.
SignalResponses ==
  {[kind |-> "ok", body |-> [data |-> sl]] : sl \in SignalLists}
    \cup {[kind |-> "ok", body |-> EmptyObject]} \cup Failures
    \cup {[kind |-> "status", body |-> [data |-> <<SignalAt("AAA", 1)>>]]}

\* Query parameters of the request (lines 253-256).
RequestArgs ==
  [breakout_pct : {3}, profit_pct : {3},
   entry_after_time : {DEFAULT_ENTRY_AFTER},
   end_before_time : {None, Some(dtime(9, 32))}]

\* ------------------------------------------------------------------- state

VARIABLES
  pc,              \* position of the analyze_signals request
  session,         \* the aiohttp.ClientSession: "none", "open", "closed"
  args,            \* parsed query parameters
  signals_up,      \* what the signal provider does with the request
  candles_up,      \* symbol -> what the market-data provider does with it
  signal_keys,     \* signal_map's keys in insertion order
  signal_map,      \* symbol -> signal
  task,            \* symbol -> state of its fetch_groww_candles task
  waiters,         \* tasks queued for a connection, oldest first
  slots,           \* symbol -> result slot of asyncio.gather
  finished,        \* symbols in the order their tasks returned
  candle_results,  \* the list gather returned
  k,               \* candle_results consumed by the aggregation loop
  summary,
  raw_results,
  response,        \* the JSON response of the request, or None
  tr_call,         \* TradeSpec: arguments of one analyze_trade call
  tr_i,            \* TradeSpec: index of the next candle
  tr_scan,         \* TradeSpec: locals of the scan
  tr_result,       \* TradeSpec: the returned record, or None
  w_call,          \* WindowSpec: route, trade date and current instant
  w_window         \* WindowSpec: the window given to the candle fetches, or None

request_vars == <<pc, session, args, signals_up, candles_up, signal_keys, signal_map,
                  task, waiters, slots, finished, candle_results, k, summary, raw_results,
                  response>>

trade_vars == <<tr_call, tr_i, tr_scan, tr_result>>

window_vars == <<w_call, w_window>>

vars == <<pc, session, args, signals_up, candles_up, signal_keys, signal_map,
          task, waiters, slots, finished, candle_results, k, summary, raw_results,
          response, tr_call, tr_i, tr_scan, tr_result, w_call, w_window>>

\* ------------------------------------------------------- analyze_signals

EmptySummary ==
  [entered |-> 0, target_hit |-> 0, stoploss_hit |-> 0, market_closed |-> 0,
   not_entered |-> 0]

EmptyResults ==
  [profit |-> EmptyObject, stoploss |-> EmptyObject, entered |-> EmptyObject,
   not_entered |-> EmptyObject]

\* The request variables before the request starts.
RequestIdle ==
  /\ pc = "start"
  /\ session = "none"
  /\ signal_keys = <<>>
  /\ signal_map = EmptyObject
  /\ task = [s \in Symbols |-> "none"]
  /\ waiters = <<>>
  /\ slots = [s \in Symbols |-> None]
  /\ finished = <<>>
  /\ candle_results = <<>>
  /\ k = 0
  /\ summary = EmptySummary
  /\ raw_results = EmptyResults
  /\ response = None

TradeIdle ==
  /\ tr_call = None
  /\ tr_i = 0
  /\ tr_scan = ScanStart
  /\ tr_result = None

WindowIdle ==
  /\ w_call = None
  /\ w_window = None

\* Symbols of a signal list.
SymbolsOf(signals) == {signals[i].symbol : i \in 1..Len(signals)}

\* Only the responses for symbols of the signal list are ever read.
Init ==
  /\ RequestIdle
  /\ TradeIdle
  /\ WindowIdle
  /\ args \in RequestArgs
  /\ signals_up \in SignalResponses
  /\ candles_up \in [Symbols -> CandleResponses]
  /\ \A s \in Symbols :
       s \notin SymbolsOf(DictGet(signals_up.body, "data", <<>>))
         => candles_up[s] = [kind |-> "status", body |-> EmptyObject]

\* Lines 116-125, mutated: the body is read whatever the status.
fetch_signals_any_status(resp) == DictGet(resp.body, "data", <<>>)

\* Lines 116-125: value fetch_signals returns for an upstream answer.
fetch_signals(resp) ==
  IF resp.kind = "ok" THEN DictGet(resp.body, "data", <<>>) ELSE <<>>

\* Lines 91-113, mutated: the body of a 200 answer is dropped.
fetch_groww_candles_dropping(symbol, resp) == <<symbol, <<>>>>

\* Lines 91-113: value fetch_groww_candles returns for an upstream answer.
fetch_groww_candles(symbol, resp) ==
  IF resp.kind = "ok" THEN <<symbol, DictGet(resp.body, "candles", <<>>)>>
  ELSE <<symbol, <<>>>>

\* Line 264, mutated: one key per signal, repeated symbols included.
KeysOfWithRepeats(signals) == [i \in 1..Len(signals) |-> signals[i].symbol]

\* Line 264: keys of {s["symbol"]: s for s in signals}, in insertion order.
RECURSIVE KeysOf(_)
KeysOf(signals) ==
  IF signals = <<>> THEN <<>>
  ELSE LET front == KeysOf(SubSeq(signals, 1, Len(signals) - 1))
           sym   == signals[Len(signals)].symbol
       IN  IF \E i \in 1..Len(front) : front[i] = sym THEN front
           ELSE Append(front, sym)

\* Line 264, mutated: the first signal of a symbol is kept.
MapOfFirst(signals) ==
  [sym \in SymbolsOf(signals) |->
     signals[CHOOSE i \in 1..Len(signals) :
               /\ signals[i].symbol = sym
               /\ \A j \in 1..Len(signals) : signals[j].symbol = sym => j >= i]]

\* Line 264: a later signal of a symbol overwrites an earlier one.
MapOf(signals) ==
  [sym \in SymbolsOf(signals) |->
     signals[CHOOSE i \in 1..Len(signals) :
               /\ signals[i].symbol = sym
               /\ \A j \in 1..Len(signals) : signals[j].symbol = sym => j <= i]]

\* Requests holding a connection of the session's connector.
InFlight == {s \in Symbols : task[s] = "inflight"}

InFlightCount == Cardinality(InFlight) + (IF pc = "signals" THEN 1 ELSE 0)

\* TCPConnector(limit=MAX_WORKERS), mutated: no limit.
Unlimited(n) == TRUE

\* Lines 260-262: TCPConnector(limit=MAX_WORKERS) hands out a connection
\* while fewer than MAX_WORKERS are held.
HasFreeConnection(n) == n < MAX_WORKERS

\* Lines 106, 118: timeout=TIMEOUT, mutated: no timeout.
NeverTimesOut(resp) == FALSE

\* Lines 106, 118: timeout=TIMEOUT ends a request the upstream never answers.
TimesOut(resp) == resp.kind = "timeout"

\* Lines 250-263: the request starts; the session is created and the signal
\* request is sent.
StartRequest ==
  /\ pc = "start"
  /\ pc' = "signals"
  /\ session' = "open"
  /\ UNCHANGED <<args, signals_up, candles_up, signal_keys, signal_map, task,
                 waiters, slots, finished, candle_results, k, summary, raw_results>>
  /\ UNCHANGED response
  /\ UNCHANGED trade_vars
  /\ UNCHANGED window_vars

\* The tasks gather creates start in order; each takes a connection or queues
\* behind the earlier ones.
RECURSIVE LaunchFrom(_, _, _, _)
LaunchFrom(keys, i, t, w) ==
  IF i > Len(keys) THEN [task |-> t, waiters |-> w]
  ELSE IF w = <<>> /\ HasFreeConnection(Cardinality({s \in Symbols : t[s] = "inflight"}))
       THEN LaunchFrom(keys, i + 1, [t EXCEPT ![keys[i]] = "inflight"], w)
       ELSE LaunchFrom(keys, i + 1, [t EXCEPT ![keys[i]] = "waiting"], Append(w, keys[i]))

\* Lines 263-279: fetch_signals returned; signal_map is built and gather
\* launches one fetch_groww_candles per key.
Launch(signals) ==
  LET l == LaunchFrom(KeysOf(signals), 1, task, <<>>)
  IN  /\ signal_keys' = KeysOf(signals)
      /\ signal_map' = MapOf(signals)
      /\ task' = l.task
      /\ waiters' = l.waiters
      /\ pc' = "fetch"
      /\ UNCHANGED <<session, args, signals_up, candles_up, slots, finished, candle_results,
                     k, summary, raw_results>>
      /\ UNCHANGED response
      /\ UNCHANGED trade_vars
      /\ UNCHANGED window_vars

\* The signal provider answers, or the transport fails.
SignalsRespond ==
  /\ pc = "signals"
  /\ signals_up.kind # "timeout"
  /\ Launch(fetch_signals(signals_up))

\* The signal request's timeout fires.
SignalsTimeout ==
  /\ pc = "signals"
  /\ TimesOut(signals_up)
  /\ Launch(fetch_signals(signals_up))

\* The task of symbol s returns: gather keeps the value in the task's slot.
Finish(s) ==
  /\ slots' = [slots EXCEPT ![s] = Some(fetch_groww_candles(s, candles_up[s]))]
  /\ task' = [task EXCEPT ![s] = "done"]
  /\ finished' = Append(finished, s)

\* The market-data provider answers the request of s, or its transport fails;
\* the connection is released.
CandlesRespond(s) ==
  /\ pc = "fetch"
  /\ task[s] = "inflight"
  /\ candles_up[s].kind # "timeout"
  /\ Finish(s)
  /\ UNCHANGED <<pc, session, args, signals_up, candles_up, signal_keys, signal_map,
                 waiters, candle_results, k, summary, raw_results>>
  /\ UNCHANGED response
  /\ UNCHANGED trade_vars
  /\ UNCHANGED window_vars

\* The timeout of the request of s fires, while it holds a connection or
\* while it is queued for one.
CandlesTimeout(s) ==
  /\ pc = "fetch"
  /\ task[s] \in {"inflight", "waiting"}
  /\ TimesOut(candles_up[s])
  /\ Finish(s)
  /\ waiters' = SelectSeq(waiters, LAMBDA w : w # s)
  /\ UNCHANGED <<pc, session, args, signals_up, candles_up, signal_keys, signal_map,
                 candle_results, k, summary, raw_results>>
  /\ UNCHANGED response
  /\ UNCHANGED trade_vars
  /\ UNCHANGED window_vars

\* The connector wakes its oldest waiter when a connection is free.
Acquire ==
  /\ pc = "fetch"
  /\ waiters # <<>>
  /\ HasFreeConnection(InFlightCount)
  /\ task' = [task EXCEPT ![Head(waiters)] = "inflight"]
  /\ waiters' = Tail(waiters)
  /\ UNCHANGED <<pc, session, args, signals_up, candles_up, signal_keys, signal_map,
                 slots, finished, candle_results, k, summary, raw_results>>
  /\ UNCHANGED response
  /\ UNCHANGED trade_vars
  /\ UNCHANGED window_vars

\* Line 276, mutated: gather returns with the first finished task.
AnyFetched(keys, t) == \E i \in 1..Len(keys) : t[keys[i]] = "done"

\* Line 276: await asyncio.gather(...) resumes when every task has returned.
AllFetched(keys, t) == \A i \in 1..Len(keys) : t[keys[i]] = "done"

\* Lines 276-281: gather returns its slots in task order, whatever the order
\* the tasks returned in. (A slot is filled when its task returns; a slot read
\* while empty counts as no candles.)
Gather ==
  /\ pc = "fetch"
  /\ AllFetched(signal_keys, task)
  /\ candle_results' =
       [i \in 1..Len(signal_keys) |->
          IF slots[signal_keys[i]] # None THEN slots[signal_keys[i]][1]
          ELSE <<signal_keys[i], <<>>>>]
  /\ pc' = "close"
  /\ UNCHANGED <<session, args, signals_up, candles_up, signal_keys, signal_map,
                 task, waiters, slots, finished, k, summary, raw_results>>
  /\ UNCHANGED response
  /\ UNCHANGED trade_vars
  /\ UNCHANGED window_vars

\* Lines 260-262, 283: leaving "async with" closes the session and its
\* connector; asyncio.run returns.
CloseSession ==
  /\ pc = "close"
  /\ session' = "closed"
  /\ pc' = "evaluate"
  /\ UNCHANGED <<args, signals_up, candles_up, signal_keys, signal_map, task,
                 waiters, slots, finished, candle_results, k, summary, raw_results>>
  /\ UNCHANGED response
  /\ UNCHANGED trade_vars
  /\ UNCHANGED window_vars

\* {**a, **b}
Merge(a, b) ==
  [x \in (DOMAIN a) \cup (DOMAIN b) |-> IF x \in DOMAIN b THEN b[x] ELSE a[x]]

\* Lines 312-329: the raw_results bucket a status is filed under.
BucketOf(status) ==
  IF status = "EXITED_TARGET" THEN "profit"
  ELSE IF status = "EXITED_SL" THEN "stoploss"
  ELSE IF status = "EXITED_MARKET_CLOSE" THEN "entered"
  ELSE "not_entered"

\* Lines 312-329, mutated: an exit on stoploss is not counted as entered.
CountedStoplossNotEntered(sm, status) ==
  IF status = "EXITED_TARGET"
  THEN [sm EXCEPT !.entered = @ + 1, !.target_hit = @ + 1]
  ELSE IF status = "EXITED_SL"
  THEN [sm EXCEPT !.stoploss_hit = @ + 1]
  ELSE IF status = "EXITED_MARKET_CLOSE"
  THEN [sm EXCEPT !.entered = @ + 1, !.market_closed = @ + 1]
  ELSE [sm EXCEPT !.not_entered = @ + 1]

\* Lines 312-329: the summary after one more result of the given status.
Counted(sm, status) ==
  IF status = "EXITED_TARGET"
  THEN [sm EXCEPT !.entered = @ + 1, !.target_hit = @ + 1]
  ELSE IF status = "EXITED_SL"
  THEN [sm EXCEPT !.entered = @ + 1, !.stoploss_hit = @ + 1]
  ELSE IF status = "EXITED_MARKET_CLOSE"
  THEN [sm EXCEPT !.entered = @ + 1, !.market_closed = @ + 1]
  ELSE [sm EXCEPT !.not_entered = @ + 1]

\* Line 303, mutated: the signal is taken by position in the fetched signal
\* list instead of by the symbol that came with the candles.
SignalByPosition(sym, i) == fetch_signals(signals_up)[i]

\* Line 303: sig = signal_map[sym]
SignalFor(sym, i) == signal_map[sym]

\* Lines 303-310: the payload of the i-th entry of candle_results.
PayloadOf(i) ==
  LET sym      == candle_results[i][1]
      candles  == candle_results[i][2]
      sig      == derive(SignalFor(sym, i), args.breakout_pct, args.profit_pct)
      analysis == analyze_trade(candles, sig, args.entry_after_time,
                                args.end_before_time)
  IN  Merge(sig, analysis)

\* Lines 302-329: one iteration of the aggregation loop.
Evaluate ==
  /\ pc = "evaluate"
  /\ k < Len(candle_results)
  /\ LET sym     == candle_results[k + 1][1]
         payload == PayloadOf(k + 1)
         bucket  == BucketOf(payload.status)
     IN  /\ summary' = Counted(summary, payload.status)
         /\ raw_results' =
              [raw_results EXCEPT ![bucket] = DictPut(@, sym, payload)]
  /\ k' = k + 1
  /\ UNCHANGED <<pc, session, args, signals_up, candles_up, signal_keys, signal_map,
                 task, waiters, slots, finished, candle_results>>
  /\ UNCHANGED response
  /\ UNCHANGED trade_vars
  /\ UNCHANGED window_vars

\* Lines 331-338: raw_results under the keys of the response.
ordered_results(raw) ==
  [x \in {"1_exited", "2_entered", "3_not_entered"} |->
     IF x = "1_exited"
     THEN [y \in {"1_profit", "2_stoploss"} |->
             IF y = "1_profit" THEN raw.profit ELSE raw.stoploss]
     ELSE IF x = "2_entered" THEN raw.entered
     ELSE raw.not_entered]

\* Lines 340-350: the body given to jsonify.
ResponseOf(sm, raw) ==
  [status |-> "ok", breakout_pct |-> args.breakout_pct, profit_pct |-> args.profit_pct,
   summary |-> sm, the_data |-> ordered_results(raw)]

\* Lines 331-350: the loop is over and the response is built.
Respond ==
  /\ pc = "evaluate"
  /\ k = Len(candle_results)
  /\ pc' = "done"
  /\ response' = Some(ResponseOf(summary, raw_results))
  /\ UNCHANGED <<session, args, signals_up, candles_up, signal_keys, signal_map,
                 task, waiters, slots, finished, candle_results, k, summary, raw_results>>
  /\ UNCHANGED trade_vars
  /\ UNCHANGED window_vars

Next ==
  \/ StartRequest
  \/ SignalsRespond
  \/ SignalsTimeout
  \/ \E s \in Symbols : CandlesRespond(s)
  \/ \E s \in Symbols : CandlesTimeout(s)
  \/ Acquire
  \/ Gather
  \/ CloseSession
  \/ Evaluate
  \/ Respond

Spec == Init /\ [][Next]_vars

\* The inputs of FairSpec: a signal list of distinct symbols, of any length up
\* to one more than the ceiling, and every assignment of the four fetch
\* outcomes to its symbols.
FairInit ==
  /\ RequestIdle
  /\ TradeIdle
  /\ WindowIdle
  /\ args = [breakout_pct |-> 3, profit_pct |-> 3,
             entry_after_time |-> DEFAULT_ENTRY_AFTER, end_before_time |-> None]
  /\ signals_up \in
       {[kind |-> "ok", body |-> [data |-> [i \in 1..n |-> SignalAt(SymbolList[i], i)]]]
          : n \in 0..Len(SymbolList)} \cup Failures
  /\ candles_up \in
       [Symbols -> {[kind |-> "ok",
                     body |-> [candles |-> <<Candle(TS_0930, 10700, 9900, 10500)>>]]}
                     \cup Failures]
  /\ \A s \in Symbols :
       s \notin SymbolsOf(DictGet(signals_up.body, "data", <<>>))
         => candles_up[s] = [kind |-> "status", body |-> EmptyObject]

\* The event loop keeps running: the upstreams answer or stay silent, the
\* timeouts fire, and a step that can be taken is taken.
FairSpec == FairInit /\ [][Next]_vars /\ WF_vars(Next)

\* ------------------------------------------------ analyze_trade, stepwise

TradeTimes == {TS_0920, TS_0930, TS_0935_MS}

TradeCandles ==
  {Candle(ts, h, l, c) :
     ts \in TradeTimes, h \in {10200, 10400, 10700}, l \in {9900, 10100},
     c \in {10000, 10500}}

TradeCandleSeqs == UNION {[1..n -> TradeCandles] : n \in 0..MaxCandles}

TradeCalls ==
  [candles : TradeCandleSeqs,
   signal : {derive(SignalAt("AAA", 1), 3, 3)},
   entry_after_time : {DEFAULT_ENTRY_AFTER},
   end_before_time : {None, Some(dtime(9, 30)), Some(dtime(9, 32))}]

\* One call of analyze_trade on arguments drawn from TradeCalls.
TradeInit ==
  /\ RequestIdle
  /\ WindowIdle
  /\ args = [breakout_pct |-> 3, profit_pct |-> 3,
             entry_after_time |-> DEFAULT_ENTRY_AFTER, end_before_time |-> None]
  /\ signals_up = [kind |-> "ok", body |-> EmptyObject]
  /\ candles_up = [s \in Symbols |-> [kind |-> "status", body |-> EmptyObject]]
  /\ \E c \in TradeCalls : tr_call = Some(c)
  /\ tr_i = 1
  /\ tr_scan = ScanStart
  /\ tr_result = None

\* Lines 140-172: the loop takes the next candle; a return inside the loop
\* ends the call.
TradeCandle ==
  /\ tr_result = None
  /\ Scanning(tr_scan, tr_i, tr_call[1].candles)
  /\ tr_scan' = ScanCandle(tr_scan, tr_call[1].candles[tr_i], tr_call[1].signal,
                           tr_call[1].entry_after_time, tr_call[1].end_before_time)
  /\ tr_i' = tr_i + 1
  /\ tr_result' = tr_scan'.ret
  /\ UNCHANGED tr_call
  /\ UNCHANGED request_vars
  /\ UNCHANGED window_vars

\* Lines 174-191: the loop ended without a return.
TradeReturn ==
  /\ tr_result = None
  /\ ~Scanning(tr_scan, tr_i, tr_call[1].candles)
  /\ tr_result' = Some(AfterLoop(tr_scan, tr_call[1].signal))
  /\ UNCHANGED <<tr_call, tr_i, tr_scan>>
  /\ UNCHANGED request_vars
  /\ UNCHANGED window_vars

TradeNext ==
  \/ TradeCandle
  \/ TradeReturn

TradeSpec == TradeInit /\ [][TradeNext]_vars

\* ------------------------------------------------------------ time windows

\* An instant is a number of seconds since the epoch; a date is a number of
\* days since the epoch, in IST.

\* Lines 49-50: to_ms, on instants without a fraction of a second.
to_ms(dt) == dt * 1000

\* datetime.combine(date, t, tzinfo=IST).
combine(date, t) == date * 86400 + t - IST_OFFSET

\* dt.date() of an instant read in IST.
date_of(dt) == (dt + IST_OFFSET) \div 86400

\* Lines 75-82: parse_trade_date; val is the date of the query, or None when
\* it is absent or does not parse.
parse_trade_date(val, default_today, now) ==
  IF val = None
  THEN IF default_today THEN Some(date_of(now)) ELSE None
  ELSE val

\* Lines 257 and 266-279: the window analyze_signals gives to the candle
\* fetches, in milliseconds.
analyze_signals_window(val, now) ==
  LET trade_date == parse_trade_date(val, FALSE, now)
  IN  IF trade_date # None
      THEN LET market_open  == combine(trade_date[1], MARKET_OPEN)
               market_close == combine(trade_date[1], MARKET_CLOSE)
               end          == IF trade_date[1] # date_of(now) THEN market_close ELSE now
           IN  [start_ms |-> to_ms(market_open), end_ms |-> to_ms(end)]
      ELSE LET today_open  == combine(date_of(now), dtime(9, 15))
               market_open == IF now < today_open THEN today_open - 86400
                              ELSE today_open
           IN  [start_ms |-> to_ms(market_open), end_ms |-> to_ms(now)]

\* Lines 200-212: the window live_candles gives to the candle fetches, in
\* milliseconds.
live_candles_window(val, now) ==
  LET trade_date   == parse_trade_date(val, TRUE, now)[1]
      market_open  == combine(trade_date, dtime(9, 0))
      market_close == combine(trade_date, MARKET_CLOSE)
      end_dt       == IF trade_date = date_of(now) THEN now ELSE market_close
  IN  [start_ms |-> to_ms(market_open), end_ms |-> to_ms(end_dt)]

\* Dates of the query and instants of the clock: three consecutive days, the
\* clock on the last two, before, at and after the open and the close.
WindowDates == {1, 2, 3}

WindowClock ==
  {combine(d, t) : d \in {2, 3},
                   t \in {dtime(8, 0), dtime(9, 5), dtime(9, 15), dtime(12, 0),
                          dtime(15, 30), dtime(16, 0)}}

WindowCalls ==
  [route : {"analyze_signals", "live_candles"},
   date : {None} \cup {Some(d) : d \in WindowDates},
   now : WindowClock]

\* One request of either route, up to the window it gives to the fetches.
WindowInit ==
  /\ RequestIdle
  /\ TradeIdle
  /\ args = [breakout_pct |-> 3, profit_pct |-> 3,
             entry_after_time |-> DEFAULT_ENTRY_AFTER, end_before_time |-> None]
  /\ signals_up = [kind |-> "ok", body |-> EmptyObject]
  /\ candles_up = [s \in Symbols |-> [kind |-> "status", body |-> EmptyObject]]
  /\ \E c \in WindowCalls : w_call = Some(c)
  /\ w_window = None

\* Lines 257-279: analyze_signals resolves its window.
AnalyzeSignalsWindow ==
  /\ w_window = None
  /\ w_call[1].route = "analyze_signals"
  /\ w_window' = Some(analyze_signals_window(w_call[1].date, w_call[1].now))
  /\ UNCHANGED w_call
  /\ UNCHANGED request_vars
  /\ UNCHANGED trade_vars

\* Lines 200-212: live_candles resolves its window.
LiveCandlesWindow ==
  /\ w_window = None
  /\ w_call[1].route = "live_candles"
  /\ w_window' = Some(live_candles_window(w_call[1].date, w_call[1].now))
  /\ UNCHANGED w_call
  /\ UNCHANGED request_vars
  /\ UNCHANGED trade_vars

WindowNext ==
  \/ AnalyzeSignalsWindow
  \/ LiveCandlesWindow

WindowSpec == WindowInit /\ [][WindowNext]_vars

\* ================================================================= claims

\* The symbols the request asks candles for, and what each upstream answer
\* holds, read off the inputs alone.
Requested == SymbolsOf(fetch_signals(signals_up))

Failed(s) == candles_up[s].kind # "ok"

Returned(s) == DictGet(candles_up[s].body, "candles", <<>>)

\* The orchestrator (runner) has returned its result.
RunnerReturned == pc \in {"close", "evaluate", "done"}

EntriesOf(s) == {i \in 1..Len(candle_results) : candle_results[i][1] = s}

\* C1: once the orchestrator has returned, its result holds exactly one entry
\* for every requested symbol and none for any other; the entry of a symbol
\* whose fetch failed (non-200 status, transport error, timeout) is the empty
\* candle sequence, and the entry of every other symbol is exactly the candles
\* the upstream returned for it, whatever happened to its siblings.
C1_OneEntryPerSymbol ==
  RunnerReturned =>
    /\ Len(candle_results) = Cardinality(Requested)
    /\ \A s \in Symbols : Cardinality(EntriesOf(s)) = (IF s \in Requested THEN 1 ELSE 0)
    /\ \A i \in 1..Len(candle_results) :
         LET s == candle_results[i][1]
         IN  candle_results[i][2] = (IF Failed(s) THEN <<>> ELSE Returned(s))

\* C1 witness: three symbols were requested; one fetch timed out, one got a
\* non-200 status, and the third symbol's candles are in the result.
C1_Witness ==
  /\ RunnerReturned
  /\ Cardinality(Requested) = 3
  /\ \E s \in Requested : candles_up[s].kind = "timeout"
  /\ \E s \in Requested : candles_up[s].kind = "status"
  /\ \E i \in 1..Len(candle_results) :
       /\ ~Failed(candle_results[i][1])
       /\ Len(candle_results[i][2]) = 2

\* A fetch of this request is still running.
FetchRunning == \E s \in Symbols : task[s] \in {"waiting", "inflight"}

\* C2: the orchestrator returns, the session and its connection pool are
\* closed, and the aggregation loop evaluates only when every candle fetch of
\* the request has completed; no fetch is running in any such state.
C2_FanInBarrier ==
  (RunnerReturned \/ session = "closed" \/ k > 0) =>
    /\ ~FetchRunning
    /\ \A s \in Requested : task[s] = "done" /\ slots[s] # None

\* C2 witness: the pool is closed and the first evaluation has run, after three
\* fetches of which the last launched finished first.
C2_Witness ==
  /\ session = "closed"
  /\ k = 1
  /\ Len(signal_keys) = 3
  /\ finished[1] = signal_keys[3]

\* C3: once the request has started, every launched fetch eventually completes
\* and the orchestrator eventually returns its result.
C3_Terminates ==
  (pc = "signals") ~> (pc = "evaluate" /\ ~FetchRunning /\ \A s \in Requested : task[s] = "done")

\* C3 witness: the orchestrator has returned although an upstream never answered
\* two of the three requests, one of which was queued for a connection.
C3_Witness ==
  /\ pc = "evaluate"
  /\ Len(signal_keys) = 3
  /\ candles_up[signal_keys[1]].kind = "timeout"
  /\ candles_up[signal_keys[3]].kind = "timeout"
  /\ finished[1] = signal_keys[3]

\* C4: at no time do more than MAX_WORKERS requests hold a connection, however
\* many symbols were requested, and every fetch queued behind the ceiling
\* eventually completes.
C4_Ceiling ==
  /\ [](InFlightCount <= MAX_WORKERS)
  /\ \A s \in Symbols : (task[s] = "waiting") ~> (task[s] = "done")

\* C4 witness: more symbols than the ceiling were requested; one fetch has
\* finished, the queued one took its connection, and the ceiling is reached
\* again.
C4_Witness ==
  /\ Len(signal_keys) > MAX_WORKERS
  /\ Len(finished) = 1
  /\ task[signal_keys[Len(signal_keys)]] = "inflight"
  /\ InFlightCount = MAX_WORKERS

\* The outcome of a requested symbol, computed from the inputs alone: the last
\* signal of the symbol, evaluated on that symbol's own upstream answer.
LastSignalOf(s) ==
  LET signals == fetch_signals(signals_up)
      last    == CHOOSE i \in 1..Len(signals) :
                   /\ signals[i].symbol = s
                   /\ \A j \in (i + 1)..Len(signals) : signals[j].symbol # s
  IN  signals[last]

ExpectedPayload(s) ==
  LET sig == derive(LastSignalOf(s), args.breakout_pct, args.profit_pct)
  IN  Merge(sig, analyze_trade(IF Failed(s) THEN <<>> ELSE Returned(s), sig,
                               args.entry_after_time, args.end_before_time))

ExpectedPayloads == [s \in Requested |-> ExpectedPayload(s)]

StatusCount(payloads, status) ==
  Cardinality({s \in DOMAIN payloads : payloads[s].status = status})

ExpectedBucket(payloads, status) ==
  [s \in {x \in DOMAIN payloads : payloads[x].status = status} |-> payloads[s]]

\* C5: the categorized output and the summary of a finished request are the
\* ones the signal list and the per-symbol upstream answers determine, each
\* symbol's candles evaluated against that symbol's signal, in whatever order
\* the fetches completed.
C5_OrderIndependent ==
  pc = "done" =>
    LET exp == ExpectedPayloads
    IN  /\ raw_results.profit = ExpectedBucket(exp, "EXITED_TARGET")
        /\ raw_results.stoploss = ExpectedBucket(exp, "EXITED_SL")
        /\ raw_results.entered = ExpectedBucket(exp, "EXITED_MARKET_CLOSE")
        /\ raw_results.not_entered = ExpectedBucket(exp, "NOT_ENTERED")
        /\ summary.target_hit = StatusCount(exp, "EXITED_TARGET")
        /\ summary.stoploss_hit = StatusCount(exp, "EXITED_SL")
        /\ summary.market_closed = StatusCount(exp, "EXITED_MARKET_CLOSE")
        /\ summary.not_entered = StatusCount(exp, "NOT_ENTERED")
        /\ summary.entered = Cardinality(Requested) - StatusCount(exp, "NOT_ENTERED")

\* C5 witness: a finished request whose three fetches completed in the reverse
\* of their launch order, with three different outcomes.
C5_Witness ==
  /\ pc = "done"
  /\ Len(signal_keys) = 3
  /\ finished = <<signal_keys[3], signal_keys[2], signal_keys[1]>>
  /\ summary.target_hit = 1
  /\ summary.market_closed = 1
  /\ summary.not_entered = 1

Buckets == {"profit", "stoploss", "entered", "not_entered"}

BucketsHolding(s) == {b \in Buckets : s \in DOMAIN raw_results[b]}

\* C6: in the output of a finished request every symbol of the signal list is
\* in exactly one of the four categories, no other symbol is in any, a symbol
\* with several signals is there with its last signal, and the category sizes
\* sum to the number of distinct symbols.
C6_ExactlyOneCategory ==
  pc = "done" =>
    /\ \A s \in Symbols :
         Cardinality(BucketsHolding(s)) = (IF s \in Requested THEN 1 ELSE 0)
    /\ \A s \in Requested : \A b \in BucketsHolding(s) :
         raw_results[b][s].open = LastSignalOf(s).open
    /\ Cardinality(DOMAIN raw_results.profit) + Cardinality(DOMAIN raw_results.stoploss)
         + Cardinality(DOMAIN raw_results.entered)
         + Cardinality(DOMAIN raw_results.not_entered)
       = Cardinality(Requested)

\* C6 witness: a finished request on a list of three signals, the first and the
\* last for one symbol, with a failed fetch.
C6_Witness ==
  /\ pc = "done"
  /\ Len(fetch_signals(signals_up)) = 3
  /\ fetch_signals(signals_up)[1].symbol = fetch_signals(signals_up)[3].symbol
  /\ Cardinality(Requested) = 2
  /\ \E s \in Requested : Failed(s)
  /\ \E s \in Requested : ~Failed(s) /\ s \notin DOMAIN raw_results.not_entered

\* The statuses of the results the loop has aggregated so far, in order.
AggregatedStatuses == [i \in 1..k |-> PayloadOf(i).status]

\* How many of the given statuses are the given one.
CountOf(statuses, status) ==
  Cardinality({i \in 1..Len(statuses) : statuses[i] = status})

\* C7: after every step of the aggregation, entered = target_hit +
\* stoploss_hit + market_closed + (results of status ENTERED), every counter
\* is the number of aggregated results of its status, and a symbol's bucket is
\* the one its status names.
C7_SummaryCounters ==
  /\ LET done == AggregatedStatuses
     IN  /\ summary.entered = summary.target_hit + summary.stoploss_hit
                                + summary.market_closed + CountOf(done, "ENTERED")
         /\ summary.target_hit = CountOf(done, "EXITED_TARGET")
         /\ summary.stoploss_hit = CountOf(done, "EXITED_SL")
         /\ summary.market_closed = CountOf(done, "EXITED_MARKET_CLOSE")
         /\ summary.not_entered = CountOf(done, "NOT_ENTERED")
  /\ \A s \in DOMAIN raw_results.profit :
       raw_results.profit[s].status = "EXITED_TARGET"
  /\ \A s \in DOMAIN raw_results.stoploss :
       raw_results.stoploss[s].status = "EXITED_SL"
  /\ \A s \in DOMAIN raw_results.entered :
       raw_results.entered[s].status \in {"EXITED_MARKET_CLOSE", "ENTERED"}
  /\ \A s \in DOMAIN raw_results.not_entered :
       raw_results.not_entered[s].status = "NOT_ENTERED"

\* C7 witness: one target exit, one stoploss exit and one forced close have
\* been aggregated.
C7_Witness ==
  /\ k = 3
  /\ summary.target_hit = 1
  /\ summary.stoploss_hit = 1
  /\ summary.market_closed = 1
  /\ summary.entered = 3

\* The time of day analyze_trade reads off a candle.
TimeOf(candle) == candle_time(normalize_ts(TS(candle)))

\* TradeSpec: the call's arguments, and the candle the loop takes in a step.
TrCandles == tr_call[1].candles

TrSignal == tr_call[1].signal

TrCutoff == tr_call[1].end_before_time

TrCandleStep == tr_result = None /\ tr_i' = tr_i + 1

\* C8: when a candle reaches the exit test with the position entered, on that
\* candle or on an earlier one, and no earlier candle ended the scan, and the
\* candle has high >= target and low <= stoploss, analyze_trade returns
\* EXITED_TARGET with exit price target, not EXITED_SL.
C8_TargetTieBreak ==
  [][(/\ TrCandleStep
      /\ tr_scan'.entered
      /\ ~tr_scan'.broke
      /\ HIGH(TrCandles[tr_i]) >= TrSignal.target
      /\ LOW(TrCandles[tr_i]) <= TrSignal.stoploss)
     => (/\ tr_result' # None
         /\ tr_result'[1].status = "EXITED_TARGET"
         /\ tr_result'[1].exit_ltp = Some(TrSignal.target))]_vars

\* C8 witness: the position was entered on the first candle, and the second
\* candle reached both target and stoploss: the call returned EXITED_TARGET.
C8_Witness ==
  /\ tr_result # None
  /\ tr_result[1].status = "EXITED_TARGET"
  /\ tr_i = 3
  /\ tr_result[1].entry_time = Some(strftime(TimeOf(TrCandles[1])))
  /\ tr_result[1].exit_time = Some(strftime(TimeOf(TrCandles[2])))
  /\ tr_result[1].entry_time # tr_result[1].exit_time
  /\ HIGH(TrCandles[2]) >= TrSignal.target
  /\ LOW(TrCandles[2]) <= TrSignal.stoploss

\* The scan of the i-th entry of candle_results stops at the first candle past
\* the cutoff; no candle before that one is at or after the entry-after time
\* with a high at or above the entry price.
NoEntryCandle(i) ==
  LET sym     == candle_results[i][1]
      candles == candle_results[i][2]
      entry   == derive(LastSignalOf(sym), args.breakout_pct, args.profit_pct).entry
      Cut(j)  == /\ args.end_before_time # None
                 /\ TimeOf(candles[j]) > args.end_before_time[1]
  IN  \A j \in 1..Len(candles) :
        (TimeOf(candles[j]) >= args.entry_after_time /\ HIGH(candles[j]) >= entry)
          => \E j2 \in 1..j : Cut(j2)

\* C9: when a symbol's candle sequence is empty or holds no scanned candle at
\* or after entry_after_time with high >= entry, its result is NOT_ENTERED with
\* entry_time, exit_time, exit price and pnl empty and market_closed false, it
\* is filed under not_entered, and of the summary only not_entered changes, by
\* one.
C9_NotEntered ==
  [][(pc = "evaluate" /\ k' = k + 1 /\ NoEntryCandle(k + 1))
     => LET sym == candle_results[k + 1][1]
        IN  /\ sym \in DOMAIN raw_results'.not_entered
            /\ raw_results'.not_entered[sym].status = "NOT_ENTERED"
            /\ raw_results'.not_entered[sym].entry_time = None
            /\ raw_results'.not_entered[sym].exit_time = None
            /\ raw_results'.not_entered[sym].exit_ltp = None
            /\ raw_results'.not_entered[sym].pnl = None
            /\ raw_results'.not_entered[sym].market_closed = FALSE
            /\ summary' = [summary EXCEPT !.not_entered = @ + 1]]_vars

\* C9 witness: of three aggregated symbols one entered, one has no candles and
\* one has candles none of which gives an entry; the latter two are counted
\* under not_entered alone.
C9_Witness ==
  /\ k = 3
  /\ summary.entered = 1
  /\ summary.not_entered = 2
  /\ \E s \in DOMAIN raw_results.not_entered : Failed(s)
  /\ \E s \in DOMAIN raw_results.not_entered : ~Failed(s) /\ Len(Returned(s)) = 2

\* C10: with end_before set, the first candle whose time of day exceeds it ends
\* the scan: that step leaves entered and entry_time as they were and returns
\* no exit, no later candle is scanned, and the result is derived from that
\* state (a forced close if entered, NOT_ENTERED otherwise, with that
\* entry_time); a candle whose time of day equals the cutoff is processed as if
\* no cutoff were set.
C10_CutoffStopsScan ==
  [][/\ (TrCandleStep /\ TrCutoff # None /\ TimeOf(TrCandles[tr_i]) > TrCutoff[1])
          => /\ tr_scan'.entered = tr_scan.entered
             /\ tr_scan'.entry_time = tr_scan.entry_time
             /\ tr_result' = None
             /\ ~Scanning(tr_scan', tr_i', TrCandles)
     /\ (TrCandleStep /\ TrCutoff # None /\ TimeOf(TrCandles[tr_i]) = TrCutoff[1])
          => tr_scan' = ScanCandle(tr_scan, TrCandles[tr_i], TrSignal,
                                   tr_call[1].entry_after_time, None)
     /\ (tr_scan.broke /\ tr_result = None)
          => /\ tr_scan' = tr_scan
             /\ tr_i' = tr_i
             /\ tr_result' # None
             /\ tr_result'[1].status =
                  (IF tr_scan.entered THEN "EXITED_MARKET_CLOSE" ELSE "NOT_ENTERED")
             /\ tr_result'[1].entry_time = tr_scan.entry_time]_vars

\* C10 witness: the position was entered on the first candle; the second candle
\* is past the cutoff and reaches the target, yet the call returned a forced
\* close with the first candle's entry time.
C10_Witness ==
  /\ tr_result # None
  /\ tr_scan.broke
  /\ tr_i = 3
  /\ TimeOf(TrCandles[2]) > TrCutoff[1]
  /\ HIGH(TrCandles[2]) >= TrSignal.target
  /\ tr_result[1].status = "EXITED_MARKET_CLOSE"
  /\ tr_result[1].entry_time = Some(strftime(TimeOf(TrCandles[1])))

\* TradeSpec: the call returned after the cutoff stopped the scan of an entered
\* position; the candle that stopped it is TrCandles[tr_i - 1], and the last
\* candle at or before the cutoff is TrCandles[tr_i - 2].
ForcedCloseAfterCutoff ==
  /\ tr_result # None
  /\ tr_scan.broke
  /\ tr_result[1].status = "EXITED_MARKET_CLOSE"

\* C11 as stated: when the cutoff truncates the scan of an entered position
\* that reached neither target nor stoploss, the result is EXITED_MARKET_CLOSE
\* and its exit price is the close of the last candle at or before the cutoff,
\* the truncating candle's close being left out.
C11_ExitPriceBeforeCutoff ==
  (tr_result # None /\ tr_scan.broke /\ tr_scan.entered)
    => /\ tr_result[1].status = "EXITED_MARKET_CLOSE"
       /\ tr_result[1].exit_ltp = Some(CLOSE(TrCandles[tr_i - 2]))

\* C11 amended: when the cutoff truncates the scan of an entered position that
\* reached neither target nor stoploss, the result is EXITED_MARKET_CLOSE, and
\* its exit price is the close of the truncating candle, the first candle past
\* the cutoff; pnl is (that close - entry) * qty.
C11_ExitPriceAtCutoff ==
  (tr_result # None /\ tr_scan.broke /\ tr_scan.entered)
    => /\ tr_result[1].status = "EXITED_MARKET_CLOSE"
       /\ TrCutoff # None
       /\ TimeOf(TrCandles[tr_i - 1]) > TrCutoff[1]
       /\ TimeOf(TrCandles[tr_i - 2]) <= TrCutoff[1]
       /\ tr_result[1].exit_ltp = Some(CLOSE(TrCandles[tr_i - 1]))
       /\ tr_result[1].pnl
            = Some((CLOSE(TrCandles[tr_i - 1]) - TrSignal.entry) * TrSignal.qty)

\* C11 witness: the scenario of the claim. The position is entered on the
\* 09:30 candle, whose close is 100.00; the 09:35 candle, whose close is
\* 105.00, is past the 09:32 cutoff; the forced close is at 105.00.
C11_Witness ==
  /\ ForcedCloseAfterCutoff
  /\ TrCutoff = Some(dtime(9, 32))
  /\ tr_i = 3
  /\ TimeOf(TrCandles[1]) = dtime(9, 30)
  /\ TimeOf(TrCandles[2]) = dtime(9, 35)
  /\ CLOSE(TrCandles[1]) = 10000
  /\ CLOSE(TrCandles[2]) = 10500
  /\ tr_result[1].entry_time = Some(<<9, 30, 0>>)
  /\ tr_result[1].exit_ltp = Some(10500)

ExitStatuses == {"EXITED_TARGET", "EXITED_SL", "EXITED_MARKET_CLOSE"}

\* C12: for every result analyze_trade returns, pnl, exit_time and the exit
\* price are each defined if and only if the status is EXITED_TARGET,
\* EXITED_SL or EXITED_MARKET_CLOSE, and market_closed is true if and only if
\* the status is EXITED_MARKET_CLOSE.
C12_DefinedIffExited ==
  tr_result # None
    => LET r == tr_result[1]
       IN  /\ r.status \in ExitStatuses \cup {"NOT_ENTERED"}
           /\ (r.pnl # None) <=> (r.status \in ExitStatuses)
           /\ (r.exit_time # None) <=> (r.status \in ExitStatuses)
           /\ (r.exit_ltp # None) <=> (r.status \in ExitStatuses)
           /\ (r.market_closed = TRUE) <=> (r.status = "EXITED_MARKET_CLOSE")

\* C12 witness: a stoploss exit on the second candle of a position entered on
\* the first: pnl, exit_time and exit price are there, market_closed is false.
C12_Witness ==
  /\ tr_result # None
  /\ tr_result[1].status = "EXITED_SL"
  /\ tr_i = 3
  /\ tr_result[1].pnl # None
  /\ tr_result[1].exit_time # None
  /\ tr_result[1].exit_ltp # None
  /\ tr_result[1].market_closed = FALSE
  /\ tr_result[1].entry_time # tr_result[1].exit_time

\* C13: EXITED_TARGET has exit price target and pnl (target - entry) * qty;
\* EXITED_SL has exit price stoploss and pnl (stoploss - entry) * qty;
\* EXITED_MARKET_CLOSE has as exit price the close of the last candle the scan
\* took, pnl (that close - entry) * qty, and exit_time 15:30:00 whatever the
\* time of that candle.
C13_ExitPriceAndPnl ==
  tr_result # None
    => LET r    == tr_result[1]
           last == CLOSE(TrCandles[tr_i - 1])
       IN  /\ r.status = "EXITED_TARGET"
                => /\ r.exit_ltp = Some(TrSignal.target)
                   /\ r.pnl = Some((TrSignal.target - TrSignal.entry) * TrSignal.qty)
           /\ r.status = "EXITED_SL"
                => /\ r.exit_ltp = Some(TrSignal.stoploss)
                   /\ r.pnl = Some((TrSignal.stoploss - TrSignal.entry) * TrSignal.qty)
           /\ r.status = "EXITED_MARKET_CLOSE"
                => /\ r.exit_ltp = Some(last)
                   /\ r.pnl = Some((last - TrSignal.entry) * TrSignal.qty)
                   /\ r.exit_time = Some(<<15, 30, 0>>)

\* C13 witness: with no cutoff, the position entered at 09:30 is still open
\* when the candles run out at 09:35; it is closed at the 09:35 close, at a
\* profit, with exit_time 15:30:00.
C13_Witness ==
  /\ tr_result # None
  /\ tr_result[1].status = "EXITED_MARKET_CLOSE"
  /\ TrCutoff = None
  /\ tr_i = 3
  /\ TimeOf(TrCandles[1]) = dtime(9, 30)
  /\ TimeOf(TrCandles[2]) = dtime(9, 35)
  /\ tr_result[1].exit_time = Some(<<15, 30, 0>>)
  /\ tr_result[1].exit_ltp = Some(10500)
  /\ tr_result[1].pnl = Some(400)

\* C20: analyze_trade never returns the status ENTERED; when the scan
\* recognized an entry, the returned status is EXITED_TARGET, EXITED_SL or
\* EXITED_MARKET_CLOSE and entry_time is not empty; NOT_ENTERED is returned
\* only when no entry was recognized.
C20_EnteredIsTransient ==
  tr_result # None
    => /\ tr_result[1].status # "ENTERED"
       /\ tr_scan.entered
            => /\ tr_result[1].status \in ExitStatuses
               /\ tr_result[1].entry_time # None
               /\ tr_result[1].entry_time = tr_scan.entry_time
       /\ tr_result[1].status = "NOT_ENTERED" => ~tr_scan.entered

\* C20 witness: the position was entered, then a candle past the cutoff
\* stopped the scan with the position still open; the call returned
\* EXITED_MARKET_CLOSE with the entry time.
C20_Witness ==
  /\ ForcedCloseAfterCutoff
  /\ tr_scan.entered
  /\ tr_result[1].entry_time # None
  /\ TrCutoff = Some(dtime(9, 30))

\* TradeSpec: candle j is past the cutoff; candle j is scanned with respect to
\* the cutoff (no candle up to it is past the cutoff); candle j qualifies for
\* the entry; candle j meets the target or the stoploss.
TrCut(j) == TrCutoff # None /\ TimeOf(TrCandles[j]) > TrCutoff[1]

TrBeforeCut(j) == \A j2 \in 1..j : ~TrCut(j2)

TrQualifies(j) ==
  /\ TrBeforeCut(j)
  /\ TimeOf(TrCandles[j]) >= tr_call[1].entry_after_time
  /\ HIGH(TrCandles[j]) >= TrSignal.entry

TrExits(j) ==
  \/ HIGH(TrCandles[j]) >= TrSignal.target
  \/ LOW(TrCandles[j]) <= TrSignal.stoploss

TrMin(S) == CHOOSE j \in S : \A j2 \in S : j <= j2

\* C15: the result is other than NOT_ENTERED exactly when some scanned candle
\* has time >= entry_after_time and high >= entry, and then entry_time is the
\* time of the first such candle; a target or stoploss exit is taken on the
\* first scanned candle from the entry candle on that meets the target or the
\* stoploss, the entry candle included, whatever earlier candles met.
C15_EntryAtFirstQualifying ==
  tr_result # None
    => LET r    == tr_result[1]
           Q    == {j \in 1..Len(TrCandles) : TrQualifies(j)}
           X(e) == {j \in e..Len(TrCandles) : TrBeforeCut(j) /\ TrExits(j)}
       IN  /\ (r.status # "NOT_ENTERED") <=> (Q # {})
           /\ Q # {}
                => LET e == TrMin(Q)
                   IN  /\ r.entry_time = Some(strftime(TimeOf(TrCandles[e])))
                       /\ (r.status \in {"EXITED_TARGET", "EXITED_SL"}) <=> (X(e) # {})
                       /\ X(e) # {}
                            => /\ tr_i - 1 = TrMin(X(e))
                               /\ r.exit_time
                                    = Some(strftime(TimeOf(TrCandles[TrMin(X(e))])))

\* C15 witness: the 09:20 candle reaches the target and the stoploss but is
\* before entry_after_time; the 09:30 candle is the first to qualify and also
\* reaches the target: entry and exit are both at 09:30:00.
C15_Witness ==
  /\ tr_result # None
  /\ tr_i = 3
  /\ TimeOf(TrCandles[1]) = dtime(9, 20)
  /\ HIGH(TrCandles[1]) >= TrSignal.target
  /\ LOW(TrCandles[1]) <= TrSignal.stoploss
  /\ TimeOf(TrCandles[2]) = dtime(9, 30)
  /\ tr_result[1].status = "EXITED_TARGET"
  /\ tr_result[1].entry_time = Some(<<9, 30, 0>>)
  /\ tr_result[1].exit_time = tr_result[1].entry_time

\* C16: every candle the loop takes becomes the last observed close, also the
\* candle past the cutoff that stops the scan; and when the call then returns
\* for an entered position, the result is EXITED_MARKET_CLOSE and its exit
\* price is that truncating candle's close.
C16_CloseBeforeCutoffCheck ==
  [][/\ TrCandleStep
       => tr_scan'.last_close = Some(CLOSE(TrCandles[tr_i]))
     /\ (tr_result = None /\ tr_result' # None /\ tr_scan.broke /\ tr_scan.entered)
       => /\ TrCut(tr_i - 1)
          /\ tr_result'[1].status = "EXITED_MARKET_CLOSE"
          /\ tr_result'[1].exit_ltp = Some(CLOSE(TrCandles[tr_i - 1]))]_vars

\* C16 witness: the scan of an entered position has just stopped at a candle
\* past the cutoff, whose close differs from the one before and is the last
\* observed close; the call has not returned yet.
C16_Witness ==
  /\ tr_result = None
  /\ tr_scan.broke
  /\ tr_scan.entered
  /\ tr_i = 3
  /\ TrCut(2)
  /\ CLOSE(TrCandles[1]) # CLOSE(TrCandles[2])
  /\ tr_scan.last_close = Some(CLOSE(TrCandles[2]))

\* C14: when the signal fetch fails (a status other than 200, a transport
\* error or a timeout), the signal set is empty, no candle fetch is issued, and
\* the response has status ok, the five counters at 0 and every bucket empty.
C14_SignalFetchFails ==
  signals_up.kind # "ok"
    => /\ \A s \in Symbols : task[s] = "none"
       /\ signal_keys = <<>>
       /\ finished = <<>>
       /\ pc \notin {"start", "signals"} => signal_map = EmptyObject
       /\ response # None
            => /\ response[1].status = "ok"
               /\ \A c \in {"entered", "target_hit", "stoploss_hit", "market_closed",
                             "not_entered"} : response[1].summary[c] = 0
               /\ DOMAIN response[1].the_data["1_exited"]["1_profit"] = {}
               /\ DOMAIN response[1].the_data["1_exited"]["2_stoploss"] = {}
               /\ DOMAIN response[1].the_data["2_entered"] = {}
               /\ DOMAIN response[1].the_data["3_not_entered"] = {}

\* C14 witness: the signal provider answered a status other than 200 with a
\* body that lists a signal; the request has responded.
C14_Witness ==
  /\ signals_up.kind = "status"
  /\ signals_up.body # EmptyObject
  /\ pc = "done"
  /\ response # None
  /\ response[1].status = "ok"
  /\ response[1].summary.not_entered = 0

\* C19: no candle fetch exists until fetch_signals has returned; from then on
\* the candle fetches issued are those of the distinct symbols of the list
\* fetch_signals returned, one per symbol.
C19_SignalsBeforeCandles ==
  /\ pc \in {"start", "signals"}
       => /\ \A s \in Symbols : task[s] = "none"
          /\ waiters = <<>>
          /\ finished = <<>>
  /\ pc \notin {"start", "signals"}
       => /\ {s \in Symbols : task[s] # "none"} = Requested
          /\ {signal_keys[i] : i \in 1..Len(signal_keys)} = Requested
          /\ Len(signal_keys) = Cardinality(Requested)

\* C19 witness: the list names three signals of two symbols; two candle
\* fetches are in flight and the third symbol has none.
C19_Witness ==
  /\ pc = "fetch"
  /\ Len(fetch_signals(signals_up)) = 3
  /\ Cardinality(Requested) = 2
  /\ Cardinality({s \in Symbols : task[s] = "inflight"}) = 2
  /\ \E s \in Symbols : task[s] = "none"

\* WindowSpec: the arguments of the request, in seconds.
WDate == w_call[1].date

WNow == w_call[1].now

WToday == date_of(WNow)

\* C17: for analyze_signals and for live_candles alike, with a date supplied
\* the window starts at 09:15 IST of that date and ends now when the date is
\* today, at 15:30 IST of that date otherwise; with no date supplied it starts
\* at the most recent 09:15 IST (today's, or yesterday's when now is before
\* today's) and ends now.
C17_WindowResolution ==
  w_window # None
    => LET open == combine(WToday, dtime(9, 15))
       IN  IF WDate # None
           THEN /\ w_window[1].start_ms = 1000 * combine(WDate[1], dtime(9, 15))
                /\ w_window[1].end_ms
                     = IF WDate[1] = WToday THEN 1000 * WNow
                       ELSE 1000 * combine(WDate[1], dtime(15, 30))
           ELSE /\ w_window[1].start_ms
                     = IF WNow < open THEN 1000 * (open - 86400) ELSE 1000 * open
                /\ w_window[1].end_ms = 1000 * WNow

\* C18: every window given to the candle fetches has start <= end, whatever
\* the date of the query and the time of the clock.
C18_WindowWellFormed ==
  w_window # None => w_window[1].start_ms <= w_window[1].end_ms

====
